---- MODULE Spec2Model ----
(***************************************************************************)
(* Cortex: a personal knowledge graph of notes joined by typed, weighted   *)
(* connections.  The model covers the note and connection tables of        *)
(* supabase/migration.sql, the store functions of services/supabase.ts,    *)
(* the relationship classifier of services/connections.ts and the tool     *)
(* handlers of tools/index.ts.                                             *)
(*                                                                         *)
(* Numbers: similarities and strengths are floats in the program; here     *)
(* they are integers in thousandths (1000 = 1.0).  A note id is its        *)
(* insertion rank (the program uses fresh random uuids, never reused);     *)
(* 0 stands for an id that names no row.                                   *)
(***************************************************************************)
EXTENDS Integers, Sequences, FiniteSets, TLC

\* ------------------------------------------------------------------ bounds

\* Number of note rows ever inserted in a run.
MaxNotes == 3
\* Longest answer of the classifier model, in items.
MaxAssessments == 2
\* Top-K of the post-save similarity search (constants.js is not part of the
\* sources; the value is a configuration constant of the program).
AUTO_CONNECT_TOP_K == 3

\* ------------------------------------------------------- program constants

\* match_threshold passed to match_notes by searchByEmbedding.
MATCH_THRESHOLD == 300
\* Similarity floor and cap of the fallback after a failed assessment.
FALLBACK_FAILED_MIN == 400
FALLBACK_FAILED_CAP == 3
\* Similarity floor and cap of the fallback after an empty assessment.
FALLBACK_EMPTY_MIN == 500
FALLBACK_EMPTY_CAP == 2
\* Largest traversal depth GetRelatedSchema admits.
MAX_DEPTH == 3

\* Largest norm of an embedding vector of the model.
MaxNorm == 29

\* Embedding vectors a note may get from the embedding provider.  Their
\* norms are integers (1, 5, 13, 29), so cosines are exact rationals:
\*   <<1,0>>.<<3,4>> = .6      <<1,0>>.<<5,12>> = .384   <<1,0>>.<<-20,21>> = -.689
\*   <<3,4>>.<<5,12>> = .969   <<3,4>>.<<-20,21>> = .165 <<5,12>>.<<-20,21>> = .403
\* and 1 for equal vectors.
Embeddings == {<<1, 0>>, <<3, 4>>, <<5, 12>>, <<0 - 20, 21>>}

\* Values of the tags column of a saved note; the empty one is the default of
\* SaveNoteSchema.
TagSets == {{}, {"ai"}}
Untagged == {{}}

VALID_LABELS == {"supports", "contradicts", "follows_from", "expands_on", "related_to"}

REASON_FAILED == "Fallback edge created from embedding similarity when LLM assessment was unavailable."
REASON_EMPTY == "Auto-connected from high embedding similarity (no explicit LLM relationship found)."

VARIABLES
    notes,        \* rows of table notes: records [id, embedding, tags]
    connections,  \* rows of table connections
    nextId,       \* rank of the next inserted note
    response,     \* what the last tool call returned, with the locals it ended with
    calls         \* the tool calls that run side by side, each with its position and locals

vars == <<notes, connections, nextId, response, calls>>

\* Tool calls that can be in progress at the same time.
MaxCalls == 2

\* A slot with no call in it.
NoCall == [op |-> "none", pc |-> "free"]

\* No call runs beside the one that response belongs to.
NoCalls == [k \in 1..MaxCalls |-> NoCall]

\* ------------------------------------------------------------- arithmetic

Min(a, b) == IF a < b THEN a ELSE b
Max(a, b) == IF a > b THEN a ELSE b

clamp01(value) == Max(0, Min(1000, value))

Dot(a, b) == a[1] * b[1] + a[2] * b[2]

Norm(a) == CHOOSE n \in 0..MaxNorm : n * n = Dot(a, a)

\* Cosine similarity in thousandths, rounded down; 0 for a zero vector.
cosineSimilarity(a, b) ==
    IF Norm(a) = 0 \/ Norm(b) = 0 THEN 0
    ELSE (Dot(a, b) * 1000) \div (Norm(a) * Norm(b))

\* ------------------------------------------------------------------ store

Ids(ns) == {n.id : n \in ns}

\* Table constraints of connections: both foreign keys name note rows, the
\* label is one of the five, the strength lies in [0,1].
RowAccepted(ns, row) ==
    /\ row.source_id \in Ids(ns)
    /\ row.target_id \in Ids(ns)
    /\ row.label \in VALID_LABELS
    /\ row.strength >= 0
    /\ row.strength <= 1000

SameTriple(c, row) ==
    /\ c.source_id = row.source_id
    /\ c.target_id = row.target_id
    /\ c.label = row.label

\* Upsert as a store that adds the new strength to the one of the row it
\* replaces.
Upsert_Accumulating(conns, row) ==
    {c \in conns : ~SameTriple(c, row)}
    \cup {[row EXCEPT !.strength =
               @ + (IF \E c \in conns : SameTriple(c, row)
                    THEN (CHOOSE c \in conns : SameTriple(c, row)).strength
                    ELSE 0)]}

\* Upsert as a plain insert into a table without the unique constraint.
Upsert_InsertOnly(conns, row) == conns \cup {row}

\* upsert with onConflict "source_id,target_id,label": the row replaces the
\* one holding its triple, when there is one.
Upsert(conns, row) == {c \in conns : ~SameTriple(c, row)} \cup {row}

\* delete from notes where id = noteId; both foreign keys cascade.
deleteNote(ns, noteId) == {n \in ns : n.id # noteId}

\* The cascade following the source_id foreign key only.
CascadeDelete_SourceOnly(conns, noteId) ==
    {c \in conns : c.source_id # noteId}

CascadeDelete(conns, noteId) ==
    {c \in conns : c.source_id # noteId /\ c.target_id # noteId}

\* A lookup that answers with a note whatever the id.
getNoteById_Any(ns, noteId) == ns

getNoteById(ns, noteId) == {n \in ns : n.id = noteId}

\* ------------------------------------------------------ similarity search

\* The first n elements of seq, all of them when it is shorter.
Take(seq, n) == SubSeq(seq, 1, Min(n, Len(seq)))

\* Threshold of the in-process search.
IN_PROCESS_THRESHOLD == 300

\* 1 - (embedding <=> query) > match_threshold, decided exactly.
AboveThreshold(a, b, threshold) ==
    /\ Norm(a) # 0
    /\ Norm(b) # 0
    /\ Dot(a, b) * 1000 > threshold * Norm(a) * Norm(b)

Matching(ns, query, threshold) ==
    {n \in ns : AboveThreshold(n.embedding, query, threshold)}

IsRanking(f, k) ==
    /\ \A i, j \in 1..k : i # j => f[i] # f[j]
    /\ \A i \in 1..k : \A j \in 1..k :
          i < j => f[i].similarity >= f[j].similarity

\* match_notes: the rows above the threshold that hold every tag of
\* filter_tags (none for a null filter), nearest first, cut to match_count.
\* Rows at the same distance come in any order, so the function has a set
\* of possible answers.
match_notes(ns, query, threshold, count, filter_tags) ==
    LET scored == {[id |-> n.id,
                    similarity |-> cosineSimilarity(n.embedding, query)]
                   : n \in {m \in Matching(ns, query, threshold) :
                               filter_tags \subseteq m.tags}}
        k == Cardinality(scored)
        rankings == {f \in [1..k -> scored] : IsRanking(f, k)}
    IN  {SubSeq(f, 1, Min(k, count)) : f \in rankings}

\* The in-process search without the slice(0, limit).
searchInProcess_NoSlice(ns, embedding, limit, tags) ==
    LET scored == {[id |-> n.id,
                    similarity |-> cosineSimilarity(embedding, n.embedding)]
                   : n \in {m \in ns :
                               /\ AboveThreshold(embedding, m.embedding, IN_PROCESS_THRESHOLD)
                               /\ tags \subseteq m.tags}}
        k == Cardinality(scored)
    IN  {f \in [1..k -> scored] : IsRanking(f, k)}

\* Lines 150-185 of searchByEmbedding: every note is scored in the process,
\* the rows above 0.3 that hold every tag are sorted by similarity, largest
\* first, and cut to limit.  Rows of equal similarity keep the order the
\* store returned them in, which is any order.
searchInProcess(ns, embedding, limit, tags) ==
    LET scored == {[id |-> n.id,
                    similarity |-> cosineSimilarity(embedding, n.embedding)]
                   : n \in {m \in ns :
                               /\ AboveThreshold(embedding, m.embedding, IN_PROCESS_THRESHOLD)
                               /\ tags \subseteq m.tags}}
        k == Cardinality(scored)
    IN  {Take(f, limit) : f \in {g \in [1..k -> scored] : IsRanking(g, k)}}

\* searchByEmbedding: the answer of the match_notes RPC (an empty tags
\* argument is passed as a null filter) or, when the RPC of the store is a
\* stale one, the answer of the in-process search.
searchByEmbedding(ns, embedding, limit, tags) ==
    match_notes(ns, embedding, MATCH_THRESHOLD, limit, tags)
    \cup searchInProcess(ns, embedding, limit, tags)

\* ------------------------------------------------------------- classifier

\* What the chat model may answer with, item by item.  typed is FALSE for an
\* item one of whose fields has the wrong JSON type.
RawItems ==
    [note_id : 0..MaxNotes, label : {"supports"}, strength : {600},
     reasoning : {"r1"}, typed : {TRUE}]
    \cup
    {[note_id |-> 1, label |-> "supports", strength |-> 200, reasoning |-> "r2", typed |-> TRUE],
     [note_id |-> 1, label |-> "bogus", strength |-> 600, reasoning |-> "r1", typed |-> TRUE],
     [note_id |-> 1, label |-> "supports", strength |-> 1200, reasoning |-> "r1", typed |-> TRUE]}

RawAnswers ==
    UNION {[1..n -> RawItems] : n \in 0..MaxAssessments}

\* The filter without the check of the label.
ValidAssessment_AnyLabel(item) ==
    /\ item.typed
    /\ item.strength >= 0
    /\ item.strength <= 1000

ValidAssessment(item) ==
    /\ item.typed
    /\ item.strength >= 0
    /\ item.strength <= 1000
    /\ item.label \in VALID_LABELS

Assessment(item) ==
    [note_id |-> item.note_id, label |-> item.label,
     strength |-> item.strength, reasoning |-> item.reasoning]

\* Outcomes of one call of assessConnections.
\* "threw" is an exception leaving the function (raised outside its try block).
ClassifierOutcomes == {"no_key", "provider_error", "answered", "threw"}

\* assessConnections: no API key, no candidates or a failed request give the
\* empty list; an answer is cut down to its valid items.
assessConnections(outcome, raw, candidates) ==
    IF outcome # "answered" \/ Len(candidates) = 0 THEN <<>>
    ELSE LET kept == SelectSeq(raw, ValidAssessment)
         IN  [i \in 1..Len(kept) |-> Assessment(kept[i])]

\* ------------------------------------------------------- cortex_save_note

\* No call is in progress.
Idle == [op |-> "none"]

\* FallbackAssessments without the slice(0, cap).
FallbackAssessments_NoCap(candidates, floor, cap, reasoning) ==
    LET kept == SelectSeq(candidates, LAMBDA c : c.similarity >= floor)
    IN  [i \in 1..Len(kept) |->
            [note_id |-> kept[i].id,
             label |-> "related_to",
             strength |-> clamp01(kept[i].similarity),
             reasoning |-> reasoning]]

\* candidates.filter(similarity >= floor).slice(0, cap).map(related_to edge)
FallbackAssessments(candidates, floor, cap, reasoning) ==
    LET kept == SelectSeq(candidates, LAMBDA c : c.similarity >= floor)
    IN  [i \in 1..Min(cap, Len(kept)) |->
            [note_id |-> kept[i].id,
             label |-> "related_to",
             strength |-> clamp01(kept[i].similarity),
             reasoning |-> reasoning]]

\* Candidates with the filter turned round: the new note alone is kept.
Candidates_OnlySelf(similar, noteId) == SelectSeq(similar, LAMBDA c : c.id = noteId)

\* Candidates without the filter on the new note's id.
Candidates_WithSelf(similar, noteId) == similar

\* Line 68: the new note is taken out of the search result.
Candidates(similar, noteId) == SelectSeq(similar, LAMBDA c : c.id # noteId)

\* Lines 78-99: the assessment, or the similarity fallback when the call
\* throws.
AssessOrFallback(outcome, raw, candidates) ==
    IF outcome = "threw"
    THEN FallbackAssessments(candidates, FALLBACK_FAILED_MIN,
                             FALLBACK_FAILED_CAP, REASON_FAILED)
    ELSE assessConnections(outcome, raw, candidates)

\* The stricter fallback added to whatever the assessment gave.
ProposedAssessments_WithFallback(assessed, candidates) ==
    assessed \o FallbackAssessments(candidates, FALLBACK_EMPTY_MIN,
                                    FALLBACK_EMPTY_CAP, REASON_EMPTY)

\* Lines 103-114: an empty list is replaced by the stricter fallback.
ProposedAssessments(assessed, candidates) ==
    IF Len(assessed) = 0
    THEN FallbackAssessments(candidates, FALLBACK_EMPTY_MIN,
                             FALLBACK_EMPTY_CAP, REASON_EMPTY)
    ELSE assessed

\* The row written with its two ends exchanged.
ConnectionRow_Reversed(sourceId, a) ==
    [source_id |-> a.note_id, target_id |-> sourceId, label |-> a.label,
     strength |-> a.strength, reasoning |-> a.reasoning]

ConnectionRow(sourceId, a) ==
    [source_id |-> sourceId, target_id |-> a.note_id, label |-> a.label,
     strength |-> a.strength, reasoning |-> a.reasoning]

\* insertConnection succeeds when the store takes the write (writeFails holds
\* the positions whose request fails) and the table accepts the row.
InsertSucceeds(ns, sourceId, a, i, writeFails) ==
    /\ i \notin writeFails
    /\ RowAccepted(ns, ConnectionRow(sourceId, a))

\* PersistLoop leaving the loop at the first failed write.
RECURSIVE PersistLoop_StopsAtFailure(_, _, _, _, _, _)
PersistLoop_StopsAtFailure(ns, sourceId, assessments, writeFails, i, acc) ==
    IF i > Len(assessments) THEN acc
    ELSE LET a == assessments[i]
         IN  IF InsertSucceeds(ns, sourceId, a, i, writeFails)
             THEN PersistLoop_StopsAtFailure(ns, sourceId, assessments, writeFails, i + 1,
                     [connections |-> Upsert(acc.connections, ConnectionRow(sourceId, a)),
                      created |-> Append(acc.created,
                          [target_id |-> a.note_id, label |-> a.label,
                           strength |-> a.strength, reasoning |-> a.reasoning]),
                      failures |-> acc.failures])
             ELSE [acc EXCEPT !.failures = @ + 1]

\* Lines 116-137: one insertConnection per assessment, in order; a failed
\* one is counted and the loop goes on.
RECURSIVE PersistLoop(_, _, _, _, _, _)
PersistLoop(ns, sourceId, assessments, writeFails, i, acc) ==
    IF i > Len(assessments) THEN acc
    ELSE LET a == assessments[i]
         IN  PersistLoop(ns, sourceId, assessments, writeFails, i + 1,
                IF InsertSucceeds(ns, sourceId, a, i, writeFails)
                THEN [connections |-> Upsert(acc.connections, ConnectionRow(sourceId, a)),
                      created |-> Append(acc.created,
                          [target_id |-> a.note_id, label |-> a.label,
                           strength |-> a.strength, reasoning |-> a.reasoning]),
                      failures |-> acc.failures]
                ELSE [acc EXCEPT !.failures = @ + 1])

\* Lines 146-149: the warning is the text set by a catch block, if any, with
\* the count of failed writes appended when there is one.
ComposeWarning(base, failures) ==
    [base |-> base, persistFailures |-> failures]

WarningIsNull(w) == w.base = "null" /\ w.persistFailures = 0

SaveFailed ==
    [op |-> "save", ok |-> FALSE, error |-> "save_error"]

\* Lines 151-166: the result of a save whose note was inserted, with the
\* locals the handler ended with.
SaveReturned(id, searched, similar, candidates, outcome, raw, assessed, assessments, writeFails, done, base) ==
    [op |-> "save", ok |-> TRUE, note |-> id,
     searched |-> searched, similar |-> similar, candidates |-> candidates,
     outcome |-> outcome, raw |-> raw, assessed |-> assessed, assessments |-> assessments,
     writeFails |-> writeFails,
     connections |-> done.created,
     failures |-> done.failures,
     warning |-> ComposeWarning(base, done.failures)]

NoEdges(conns) == [connections |-> conns, created |-> <<>>, failures |-> 0]

\* The outer catch block answering with an error result.
SaveIncomplete_AsError(id, conns) == SaveFailed

\* The save without the outer catch block: the error of the search leaves
\* the handler.
SaveIncomplete_Uncaught(id, conns) == [op |-> "save", thrown |-> "search_error"]

\* Lines 139-144: the outer catch block; the note stays, the result is a
\* success with the warning set.
SaveIncomplete(id, conns) ==
    SaveReturned(id, FALSE, <<>>, <<>>, "not_called", <<>>, <<>>, <<>>, {},
                 NoEdges(conns), "analysis_incomplete")

\* A save that leaves a note row behind although it reports the failure.
SaveRejected_NoteKept(last) ==
    /\ UNCHANGED calls
    /\ response = Idle
    /\ nextId <= last
    /\ notes' = notes \cup {[id |-> nextId, embedding |-> <<1, 0>>, tags |-> {}]}
    /\ nextId' = nextId + 1
    /\ response' = SaveFailed
    /\ UNCHANGED connections

\* Lines 44-54: the embedding request or the insert of the note fails.
SaveRejected(last) ==
    /\ UNCHANGED calls
    /\ response = Idle
    /\ nextId <= last
    /\ response' = SaveFailed
    /\ UNCHANGED <<notes, connections, nextId>>

\* Lines 66-67 and 139-144: the note is in, the similarity search throws.
SaveSearchFails(last, tagSets) ==
    /\ UNCHANGED calls
    /\ response = Idle
    /\ nextId <= last
    /\ \E embedding \in Embeddings, tags \in tagSets :
          /\ notes' = notes \cup {[id |-> nextId, embedding |-> embedding, tags |-> tags]}
          /\ nextId' = nextId + 1
          /\ response' = SaveIncomplete(nextId, connections)
          /\ UNCHANGED connections

\* Lines 44-166 with every request but the edge writes succeeding.  last is
\* the largest note id of the run, tagSets the tags arguments of its saves.
SaveNote(last, tagSets) ==
    /\ UNCHANGED calls
    /\ response = Idle
    /\ nextId <= last
    /\ \E embedding \in Embeddings, tags \in tagSets :
       LET inserted == notes \cup {[id |-> nextId, embedding |-> embedding, tags |-> tags]}
       IN  \E similar \in searchByEmbedding(inserted, embedding, AUTO_CONNECT_TOP_K, {}) :
           LET candidates == Candidates(similar, nextId)
           IN  /\ notes' = inserted
               /\ nextId' = nextId + 1
               /\ IF Len(candidates) > 0
                  THEN \E outcome \in ClassifierOutcomes :
                       \E raw \in (IF outcome = "answered" THEN RawAnswers ELSE {<<>>}) :
                       LET assessed == AssessOrFallback(outcome, raw, candidates)
                           assessments == ProposedAssessments(assessed, candidates)
                       IN  \E writeFails \in SUBSET (1..Len(assessments)) :
                           LET done == PersistLoop(inserted, nextId, assessments, writeFails,
                                                   1, NoEdges(connections))
                           IN  /\ connections' = done.connections
                               /\ response' = SaveReturned(nextId, TRUE, similar, candidates,
                                     outcome, raw, assessed, assessments, writeFails, done,
                                     IF outcome = "threw" THEN "assessment_failed" ELSE "null")
                  ELSE /\ connections' = connections
                       /\ response' = SaveReturned(nextId, TRUE, similar, candidates,
                                        "not_called", <<>>, <<>>, <<>>, {}, NoEdges(connections),
                                        "null")

\* ------------------------------------------------------- graph traversal

\* The end of connection c that is not note id (id itself for a self-loop).
OtherEnd(c, id) == IF c.source_id = id THEN c.target_id ELSE c.source_id

GraphRow(id, depth, c) ==
    [id |-> id, depth |-> depth,
     connection_label |-> c.label, connection_strength |-> c.strength]

\* get_connections without its incoming branch.
get_connections_OutgoingOnly(ns, conns, root_note_id, min_strength) ==
    {GraphRow(c.target_id, 1, c) :
        c \in {x \in conns : /\ x.source_id = root_note_id
                             /\ x.strength >= min_strength
                             /\ x.target_id \in Ids(ns)}}

\* get_connections comparing with > in place of >=.
get_connections_Strict(ns, conns, root_note_id, min_strength) ==
    {GraphRow(c.target_id, 1, c) :
        c \in {x \in conns : /\ x.source_id = root_note_id
                             /\ x.strength > min_strength
                             /\ x.target_id \in Ids(ns)}}
    \cup
    {GraphRow(c.source_id, 1, c) :
        c \in {x \in conns : /\ x.target_id = root_note_id
                             /\ x.strength > min_strength
                             /\ x.source_id \in Ids(ns)}}

\* get_connections: the outgoing rows union the incoming rows.  UNION keeps
\* one copy of equal rows, so the answer is a set.
get_connections(ns, conns, root_note_id, min_strength) ==
    {GraphRow(c.target_id, 1, c) :
        c \in {x \in conns : /\ x.source_id = root_note_id
                             /\ x.strength >= min_strength
                             /\ x.target_id \in Ids(ns)}}
    \cup
    {GraphRow(c.source_id, 1, c) :
        c \in {x \in conns : /\ x.target_id = root_note_id
                             /\ x.strength >= min_strength
                             /\ x.source_id \in Ids(ns)}}

\* The recursive term following a connection from its source only.
RecursiveTerm_SourceOnly(ns, conns, rows, root_note_id, max_depth, min_strength) ==
    UNION {
        {GraphRow(c.target_id, g.depth + 1, c) :
            c \in {x \in conns :
                     /\ x.source_id = g.id
                     /\ g.depth < max_depth
                     /\ x.strength >= min_strength
                     /\ x.target_id \in Ids(ns)
                     /\ x.target_id # root_note_id}}
        : g \in rows}

\* The recursive term going one hop beyond max_depth.
RecursiveTerm_OneTooDeep(ns, conns, rows, root_note_id, max_depth, min_strength) ==
    UNION {
        {GraphRow(OtherEnd(c, g.id), g.depth + 1, c) :
            c \in {x \in conns :
                     /\ (x.source_id = g.id \/ x.target_id = g.id)
                     /\ g.depth <= max_depth
                     /\ x.strength >= min_strength
                     /\ OtherEnd(x, g.id) \in Ids(ns)
                     /\ OtherEnd(x, g.id) # root_note_id}}
        : g \in rows}

\* The recursive term of get_connections_deep applied to the rows g of the
\* working table.
RecursiveTerm(ns, conns, rows, root_note_id, max_depth, min_strength) ==
    UNION {
        {GraphRow(OtherEnd(c, g.id), g.depth + 1, c) :
            c \in {x \in conns :
                     /\ (x.source_id = g.id \/ x.target_id = g.id)
                     /\ g.depth < max_depth
                     /\ x.strength >= min_strength
                     /\ OtherEnd(x, g.id) \in Ids(ns)
                     /\ OtherEnd(x, g.id) # root_note_id}}
        : g \in rows}

\* WITH RECURSIVE ... UNION: each round feeds the rows of the last round that
\* were not seen before, until a round adds none.
RECURSIVE RecursiveGraph(_, _, _, _, _, _, _)
RecursiveGraph(ns, conns, all, working, root_note_id, max_depth, min_strength) ==
    IF working = {} THEN all
    ELSE LET fresh == RecursiveTerm(ns, conns, working, root_note_id,
                                    max_depth, min_strength) \ all
         IN  RecursiveGraph(ns, conns, all \cup fresh, fresh, root_note_id,
                            max_depth, min_strength)

\* The rows of an id ordered by depth, largest first.
FirstRows_Deepest(graph, id) ==
    {g \in graph : /\ g.id = id
                   /\ \A h \in graph : h.id = id => g.depth >= h.depth}

\* SELECT DISTINCT ON (id) ... ORDER BY id, depth: per id, one of the rows of
\* least depth; which one, among several, is not determined.
FirstRows(graph, id) ==
    {g \in graph : /\ g.id = id
                   /\ \A h \in graph : h.id = id => g.depth <= h.depth}

\* The final select without DISTINCT ON.
DistinctOnId_KeepAll(graph) == {graph}

DistinctOnId(graph) ==
    LET ids == {g.id : g \in graph}
    IN  {{pick[i] : i \in ids} :
            pick \in {f \in [ids -> graph] : \A i \in ids : f[i] \in FirstRows(graph, i)}}

\* get_connections_deep: the possible answers.
get_connections_deep(ns, conns, root_note_id, max_depth, min_strength) ==
    LET base == get_connections(ns, conns, root_note_id, min_strength)
    IN  DistinctOnId(RecursiveGraph(ns, conns, base, base, root_note_id,
                                    max_depth, min_strength))

\* ------------------------------------------------------ cortex_get_related

\* Values of min_strength the model calls the tool with.
MinStrengths == {300, 600}

\* Lines 220-257 with the store answering.
GetRelated ==
    /\ UNCHANGED calls
    /\ response = Idle
    /\ \E note_id \in 0..(nextId - 1), depth \in 1..MAX_DEPTH, min_strength \in MinStrengths :
          /\ IF getNoteById(notes, note_id) = {}
             THEN response' = [op |-> "get_related", ok |-> FALSE, note_id |-> note_id,
                               depth |-> depth, min_strength |-> min_strength,
                               error |-> "not_found"]
             ELSE \E related \in (IF depth = 1
                                  THEN {get_connections(notes, connections, note_id, min_strength)}
                                  ELSE get_connections_deep(notes, connections, note_id,
                                                            depth, min_strength)) :
                     response' = [op |-> "get_related", ok |-> TRUE, note_id |-> note_id,
                                  depth |-> depth, min_strength |-> min_strength,
                                  connections |-> related]
          /\ UNCHANGED <<notes, connections, nextId>>

\* Lines 252-256: a store request of the handler fails.
GetRelatedFails ==
    /\ UNCHANGED calls
    /\ response = Idle
    /\ \E note_id \in 0..(nextId - 1), depth \in 1..MAX_DEPTH, min_strength \in MinStrengths :
          response' = [op |-> "get_related", ok |-> FALSE, note_id |-> note_id,
                       depth |-> depth, min_strength |-> min_strength,
                       error |-> "store_error"]
    /\ UNCHANGED <<notes, connections, nextId>>

\* ----------------------------------------------------- cortex_delete_note

\* Lines 423-442.  cascaded holds the connection rows the delete took with
\* the note.
DeleteNote ==
    /\ UNCHANGED calls
    /\ response = Idle
    /\ \E note_id \in 0..(nextId - 1) :
       IF getNoteById(notes, note_id) = {}
       THEN /\ response' = [op |-> "delete", ok |-> FALSE, note_id |-> note_id,
                              error |-> "not_found"]
            /\ UNCHANGED <<notes, connections, nextId>>
       ELSE /\ notes' = deleteNote(notes, note_id)
            /\ connections' = CascadeDelete(connections, note_id)
            /\ response' = [op |-> "delete", ok |-> TRUE, note_id |-> note_id,
                             cascaded |-> connections \ CascadeDelete(connections, note_id)]
            /\ UNCHANGED nextId

\* Lines 437-441: a store request of the handler fails; nothing is deleted
\* (the failed request is the lookup or the delete itself).
DeleteNoteFails ==
    /\ UNCHANGED calls
    /\ response = Idle
    /\ \E note_id \in 0..(nextId - 1) :
          response' = [op |-> "delete", ok |-> FALSE, note_id |-> note_id,
                       error |-> "store_error"]
    /\ UNCHANGED <<notes, connections, nextId>>

\* ------------------------------------------------------ ordered results

\* The integers of S, largest first.
RECURSIVE Descending(_)
Descending(S) ==
    IF S = {} THEN <<>>
    ELSE LET m == CHOOSE x \in S : \A y \in S : y <= x
         IN  <<m>> \o Descending(S \ {m})

\* The orderings of rows by count, largest first, cut to limit; rows of
\* equal count come in any order.
RankedByCount(rows, limit) ==
    LET k == Cardinality(rows)
    IN  {Take(f, limit) :
            f \in {g \in [1..k -> rows] :
                     /\ \A i, j \in 1..k : i # j => g[i] # g[j]
                     /\ \A i, j \in 1..k : i < j => g[i].count >= g[j].count}}

\* Tag filters the read tools are called with; the empty one is no filter.
TagFilters == {{}, {"ai"}}

\* Values of the limit argument of the read tools.
ReadLimits == {1, 2}

\* ----------------------------------------------------- cortex_search_notes

\* Math.round(similarity * 100) / 100, in thousandths.
RoundHundredths(similarity) == ((similarity + 5) \div 10) * 10

\* The result rows of a search as the handlers of search and summarize
\* report them.
Reported(results) ==
    [i \in 1..Len(results) |->
        [id |-> results[i].id, similarity |-> RoundHundredths(results[i].similarity)]]

\* Lines 181-200 with the embedding provider and the store answering.
SearchNotes ==
    /\ UNCHANGED calls
    /\ response = Idle
    /\ \E query \in Embeddings, limit \in ReadLimits, tags \in TagFilters :
       \E results \in searchByEmbedding(notes, query, limit, tags) :
          response' = [op |-> "search", ok |-> TRUE, query |-> query, limit |-> limit,
                       tags |-> tags, found |-> results, results |-> Reported(results)]
    /\ UNCHANGED <<notes, connections, nextId>>

\* Lines 201-205: the embedding request or the search fails.
SearchNotesFails ==
    /\ UNCHANGED calls
    /\ response = Idle
    /\ \E failed \in {"embedding_error", "store_error"} :
          response' = [op |-> "search", ok |-> FALSE, error |-> failed]
    /\ UNCHANGED <<notes, connections, nextId>>

\* -------------------------------------------------- cortex_summarize_topic

\* Lines 334-355.
SummarizeTopic ==
    /\ UNCHANGED calls
    /\ response = Idle
    /\ \E topic \in Embeddings, limit \in ReadLimits :
       \E found \in searchByEmbedding(notes, topic, limit, {}) :
          response' = [op |-> "summarize", ok |-> TRUE, topic |-> topic, limit |-> limit,
                       notes |-> Reported(found)]
    /\ UNCHANGED <<notes, connections, nextId>>

\* Lines 356-360.
SummarizeTopicFails ==
    /\ UNCHANGED calls
    /\ response = Idle
    /\ \E failed \in {"embedding_error", "store_error"} :
          response' = [op |-> "summarize", ok |-> FALSE, error |-> failed]
    /\ UNCHANGED <<notes, connections, nextId>>

\* ---------------------------------------------- cortex_visualize_interests

\* An optional argument left out of the call.
Absent == 0 - 1

\* Threshold of the interest graph when the call names none.
DEFAULT_THRESHOLD == 300

\* min_similarity ?? min_strength ?? 0.3
SimilarityThreshold(min_similarity, min_strength) ==
    IF min_similarity # Absent THEN min_similarity
    ELSE IF min_strength # Absent THEN min_strength
    ELSE DEFAULT_THRESHOLD

\* getInterestGraph selecting the connections by their source alone.
getInterestGraph_SourceOnly(ns, conns, limit, minStrength, tag) ==
    LET chosen == {n \in ns : tag = "" \/ tag \in n.tags}
        nodes == Take(Descending(Ids(chosen)), limit)
        nodeIds == {nodes[i] : i \in 1..Len(nodes)}
    IN  [nodes |-> nodes,
         edges |-> IF Len(nodes) = 0 THEN {}
                   ELSE {c \in conns : /\ c.source_id \in nodeIds
                                       /\ c.strength >= minStrength}]

\* getInterestGraph: the limit newest notes, of those holding the tag when
\* one is given ("" for none), and the connections between them of strength
\* >= minStrength; no connection is read when no note is selected.
getInterestGraph(ns, conns, limit, minStrength, tag) ==
    LET chosen == {n \in ns : tag = "" \/ tag \in n.tags}
        nodes == Take(Descending(Ids(chosen)), limit)
        nodeIds == {nodes[i] : i \in 1..Len(nodes)}
    IN  [nodes |-> nodes,
         edges |-> IF Len(nodes) = 0 THEN {}
                   ELSE {c \in conns : /\ c.source_id \in nodeIds
                                       /\ c.target_id \in nodeIds
                                       /\ c.strength >= minStrength}]

\* Values of the limit argument of the interest graph.
GraphLimits == {1, 2, 3}

\* Values of the two threshold arguments, min_similarity first.
ThresholdArguments == {<<Absent, Absent>>, <<600, Absent>>, <<Absent, 200>>, <<600, 200>>}

\* Lines 277-314.
VisualizeInterests ==
    /\ UNCHANGED calls
    /\ response = Idle
    /\ \E limit \in GraphLimits, given \in ThresholdArguments, tag \in {"", "ai"} :
       LET similarityThreshold == SimilarityThreshold(given[1], given[2])
           graph == getInterestGraph(notes, connections, limit, similarityThreshold, tag)
       IN  response' = [op |-> "visualize", ok |-> TRUE, limit |-> limit,
                        min_similarity |-> similarityThreshold, tag |-> tag,
                        nodes |-> graph.nodes, edges |-> graph.edges]
    /\ UNCHANGED <<notes, connections, nextId>>

\* Lines 315-319.
VisualizeInterestsFails ==
    /\ UNCHANGED calls
    /\ response = Idle
    /\ response' = [op |-> "visualize", ok |-> FALSE, error |-> "store_error"]
    /\ UNCHANGED <<notes, connections, nextId>>

\* ----------------------------------------------------- cortex_daily_digest

\* Themes the digest reports at most.
DIGEST_THEMES == 5

\* getRecentNotes: the limit newest notes created since the start of the
\* period; oldest is the last note created before it (0 when there is none).
getRecentNotes(ns, oldest, limit) ==
    Take(Descending({n.id : n \in {m \in ns : m.id > oldest}}), limit)

\* Lines 381-386: how many of the notes hold each tag that occurs.
TagCounts(ns) ==
    {[tag |-> t, count |-> Cardinality({n \in ns : t \in n.tags})] :
        t \in UNION {n.tags : n \in ns}}

\* Lines 375-403.
DailyDigest ==
    /\ UNCHANGED calls
    /\ response = Idle
    /\ \E oldest \in 0..(nextId - 1), limit \in ReadLimits :
       LET recent == getRecentNotes(notes, oldest, limit)
           listed == {n \in notes : \E i \in 1..Len(recent) : recent[i] = n.id}
       IN  \E themes \in RankedByCount(TagCounts(listed), DIGEST_THEMES) :
              response' = [op |-> "digest", ok |-> TRUE, limit |-> limit,
                           notes |-> recent, top_themes |-> themes]
    /\ UNCHANGED <<notes, connections, nextId>>

\* Lines 404-408.
DailyDigestFails ==
    /\ UNCHANGED calls
    /\ response = Idle
    /\ response' = [op |-> "digest", ok |-> FALSE, error |-> "store_error"]
    /\ UNCHANGED <<notes, connections, nextId>>

\* -------------------------------------------------------- cortex_list_tags

\* list_tags: every tag with the number of notes holding it, most used
\* first, cut to max_tags.
list_tags(ns, max_tags) == RankedByCount(TagCounts(ns), max_tags)

\* Lines 456-462.
ListTags ==
    /\ UNCHANGED calls
    /\ response = Idle
    /\ \E limit \in ReadLimits :
       \E tags \in list_tags(notes, limit) :
          response' = [op |-> "list_tags", ok |-> TRUE, limit |-> limit, tags |-> tags]
    /\ UNCHANGED <<notes, connections, nextId>>

\* Lines 463-467.
ListTagsFails ==
    /\ UNCHANGED calls
    /\ response = Idle
    /\ response' = [op |-> "list_tags", ok |-> FALSE, error |-> "store_error"]
    /\ UNCHANGED <<notes, connections, nextId>>

Init ==
    /\ notes = {}
    /\ connections = {}
    /\ nextId = 1
    /\ response = Idle
    /\ calls = NoCalls

\* The transport hands the handler's result to the caller; the server is
\* ready for the next call.
Deliver ==
    /\ UNCHANGED calls
    /\ response # Idle
    /\ response' = Idle
    /\ UNCHANGED <<notes, connections, nextId>>

Next ==
    \/ Deliver
    \/ SaveRejected(MaxNotes)
    \/ SaveSearchFails(MaxNotes, Untagged)
    \/ SaveNote(MaxNotes, Untagged)
    \/ DeleteNote
    \/ DeleteNoteFails
    \/ GetRelated
    \/ GetRelatedFails

Spec == Init /\ [][Next]_vars

\* ------------------------------------------------- all tools, tagged notes

\* Notes in the store when the run starts.
ToolNotes == 2

\* A store of ToolNotes notes, saved with or without tags, and no
\* connections, as left by saves whose similarity search failed.
InitTools ==
    /\ \E e \in [1..ToolNotes -> Embeddings], t \in [1..ToolNotes -> TagSets] :
          notes = {[id |-> i, embedding |-> e[i], tags |-> t[i]] : i \in 1..ToolNotes}
    /\ connections = {}
    /\ nextId = ToolNotes + 1
    /\ response = Idle
    /\ calls = NoCalls

\* Every tool of the server.
NextTools ==
    \/ Deliver
    \/ SaveRejected(ToolNotes + 1)
    \/ SaveSearchFails(ToolNotes + 1, TagSets)
    \/ SaveNote(ToolNotes + 1, TagSets)
    \/ DeleteNote
    \/ DeleteNoteFails
    \/ GetRelated
    \/ GetRelatedFails
    \/ SearchNotes
    \/ SearchNotesFails
    \/ SummarizeTopic
    \/ SummarizeTopicFails
    \/ VisualizeInterests
    \/ VisualizeInterestsFails
    \/ DailyDigest
    \/ DailyDigestFails
    \/ ListTags
    \/ ListTagsFails

SpecTools == InitTools /\ [][NextTools]_vars

\* ---------------------------------------------- saves into a filled store

\* Notes in the store when the run starts.
LibraryNotes == 3

\* A store of LibraryNotes notes without connections, as left by saves whose
\* similarity search failed.
InitLibrary ==
    /\ \E e \in [1..LibraryNotes -> Embeddings] :
          notes = {[id |-> i, embedding |-> e[i], tags |-> {}] : i \in 1..LibraryNotes}
    /\ connections = {}
    /\ nextId = LibraryNotes + 1
    /\ response = Idle
    /\ calls = NoCalls

NextLibrary ==
    \/ Deliver
    \/ SaveRejected(LibraryNotes + 1)
    \/ SaveSearchFails(LibraryNotes + 1, Untagged)
    \/ SaveNote(LibraryNotes + 1, Untagged)

SpecLibrary == InitLibrary /\ [][NextLibrary]_vars

\* ------------------------------------------------ traversal of any graph

\* Notes and, at most, connections of the stores the traversal is run on.
GraphNotes == 4
GraphEdges == 3

\* Connection rows between the notes of such a store.  A save writes rows
\* from its own note to notes already stored (or to itself); rows in both
\* directions between two notes come from saves that overlap in time.
EdgeUniverse ==
    {[source_id |-> a, target_id |-> b, label |-> k[1], strength |-> k[2], reasoning |-> "r1"] :
        a \in 1..GraphNotes, b \in 1..GraphNotes,
        k \in {<<"supports", 600>>, <<"supports", 200>>, <<"related_to", 600>>}}

RECURSIVE EdgeSets(_)
EdgeSets(n) ==
    IF n = 0 THEN {{}}
    ELSE LET smaller == EdgeSets(n - 1)
         IN  smaller \cup
             {e \cup {row} : e \in smaller, row \in EdgeUniverse}

UniqueTriples(conns) ==
    \A c, d \in conns : SameTriple(c, d) => c = d

InitGraph ==
    /\ notes = {[id |-> i, embedding |-> <<1, 0>>, tags |-> {}] : i \in 1..GraphNotes}
    /\ connections \in {e \in EdgeSets(GraphEdges) : UniqueTriples(e)}
    /\ nextId = GraphNotes + 1
    /\ response = Idle
    /\ calls = NoCalls

NextGraph ==
    \/ Deliver
    \/ GetRelated
    \/ GetRelatedFails

SpecGraph == InitGraph /\ [][NextGraph]_vars

\* ------------------------------------------------ calls that run side by side

\* The server awaits every request to the store and to the providers, and
\* the transport starts the handler of a call while others are waiting: the
\* handlers interleave at their awaits.  A call sits in a slot of calls from
\* its first step until its result is handed over; pc is the await the
\* handler stands at, "done" once it has returned.

\* The largest note id of a run, and the note in the store when it starts.
ConcurrentNotes == 3
SeedNotes == 1

\* Embeddings of the notes and queries of a run.
ConcurrentEmbeddings == {<<1, 0>>, <<0 - 20, 21>>}

\* Answers of the chat model in a run: at most one item.
ConcurrentAnswers == {raw \in RawAnswers : Len(raw) <= 1}

\* A save that has inserted its note and has not returned.
SaveRunning(c) == c.op = "save" /\ c.pc \in {"search", "write"}

\* Lines 151-166 when the loop of lines 116-137 has run through.
AfterWrite(c) ==
    IF c.i > Len(c.assessments)
    THEN [c EXCEPT !.pc = "done", !.warning = ComposeWarning(c.base, c.failures)]
    ELSE c

\* A save whose note row is not written when the insert returns.
SaveBegin_Hidden(k) ==
    /\ calls[k] = NoCall
    /\ nextId <= ConcurrentNotes
    /\ \E embedding \in ConcurrentEmbeddings :
          calls' = [calls EXCEPT ![k] =
                       [op |-> "save", pc |-> "search", ok |-> TRUE, note |-> nextId,
                        embedding |-> embedding,
                        overlapped |-> \E j \in 1..MaxCalls : SaveRunning(calls[j])]]
    /\ nextId' = nextId + 1
    /\ UNCHANGED <<notes, connections, response>>

\* Lines 46-49: the embedding is computed and the note inserted; the insert
\* is a request of its own, committed when it returns.  overlapped records
\* that another save was running at some moment of this one.
SaveBegin(k) ==
    /\ calls[k] = NoCall
    /\ nextId <= ConcurrentNotes
    /\ \E embedding \in ConcurrentEmbeddings :
          /\ notes' = notes \cup {[id |-> nextId, embedding |-> embedding, tags |-> {}]}
          /\ calls' = [j \in 1..MaxCalls |->
                         IF j = k
                         THEN [op |-> "save", pc |-> "search", ok |-> TRUE, note |-> nextId,
                               embedding |-> embedding,
                               overlapped |-> \E h \in 1..MaxCalls : SaveRunning(calls[h])]
                         ELSE IF SaveRunning(calls[j])
                              THEN [calls[j] EXCEPT !.overlapped = TRUE]
                              ELSE calls[j]]
    /\ nextId' = nextId + 1
    /\ UNCHANGED <<connections, response>>

\* Lines 50-54: the embedding request or the insert fails.
SaveBeginFails(k) ==
    /\ calls[k] = NoCall
    /\ nextId <= ConcurrentNotes
    /\ calls' = [calls EXCEPT ![k] = [op |-> "save", pc |-> "done", ok |-> FALSE,
                                      error |-> "save_error"]]
    /\ UNCHANGED <<notes, connections, nextId, response>>

\* Lines 66-67 and 139-144: the similarity search throws.
SaveSearchThrows(k) ==
    /\ calls[k].op = "save"
    /\ calls[k].pc = "search"
    /\ calls' = [calls EXCEPT ![k] =
                   [op |-> "save", pc |-> "done", ok |-> TRUE, note |-> calls[k].note,
                    embedding |-> calls[k].embedding, overlapped |-> calls[k].overlapped,
                    candidates |-> <<>>, assessments |-> <<>>, i |-> 1,
                    created |-> <<>>, failures |-> 0, base |-> "analysis_incomplete",
                    warning |-> ComposeWarning("analysis_incomplete", 0)]]
    /\ UNCHANGED <<notes, connections, nextId, response>>

\* Lines 66-114: the similarity search reads the store as it is now; the
\* assessment and the fallbacks that follow touch no row, so they are taken
\* with it.
SaveAnalyse(k) ==
    /\ calls[k].op = "save"
    /\ calls[k].pc = "search"
    /\ \E similar \in searchByEmbedding(notes, calls[k].embedding, AUTO_CONNECT_TOP_K, {}) :
       LET candidates == Candidates(similar, calls[k].note)
       IN  \E outcome \in (IF Len(candidates) > 0 THEN ClassifierOutcomes ELSE {"not_called"}) :
           \E raw \in (IF outcome = "answered" THEN ConcurrentAnswers ELSE {<<>>}) :
           LET assessments ==
                   IF Len(candidates) > 0
                   THEN ProposedAssessments(AssessOrFallback(outcome, raw, candidates),
                                            candidates)
                   ELSE <<>>
               base == IF outcome = "threw" THEN "assessment_failed" ELSE "null"
           IN  calls' = [calls EXCEPT ![k] = AfterWrite(
                           [op |-> "save", pc |-> "write", ok |-> TRUE, note |-> calls[k].note,
                            embedding |-> calls[k].embedding,
                            overlapped |-> calls[k].overlapped,
                            candidates |-> candidates, assessments |-> assessments, i |-> 1,
                            created |-> <<>>, failures |-> 0, base |-> base,
                            warning |-> ComposeWarning(base, 0)])]
    /\ UNCHANGED <<notes, connections, nextId, response>>

\* Lines 116-137, one turn of the loop: one insertConnection against the
\* store as it is now; failed says that the request itself fails.
SaveWrite(k) ==
    /\ calls[k].op = "save"
    /\ calls[k].pc = "write"
    /\ \E failed \in BOOLEAN :
       LET c == calls[k]
           a == c.assessments[c.i]
           done == PersistLoop(notes, c.note, <<a>>, IF failed THEN {1} ELSE {}, 1,
                               [connections |-> connections, created |-> c.created,
                                failures |-> c.failures])
       IN  /\ connections' = done.connections
           /\ calls' = [calls EXCEPT ![k] = AfterWrite(
                           [c EXCEPT !.i = @ + 1, !.created = done.created,
                                     !.failures = done.failures])]
    /\ UNCHANGED <<notes, nextId, response>>

\* Lines 425-428: the lookup of the note.
DeleteLookup(k) ==
    /\ calls[k] = NoCall
    /\ \E note_id \in 0..(nextId - 1) :
          calls' = [calls EXCEPT ![k] =
                       IF getNoteById(notes, note_id) = {}
                       THEN [op |-> "delete", pc |-> "done", ok |-> FALSE,
                             note_id |-> note_id, error |-> "not_found"]
                       ELSE [op |-> "delete", pc |-> "remove", note_id |-> note_id]]
    /\ UNCHANGED <<notes, connections, nextId, response>>

\* Lines 430-436: the delete of the row, which is no error when no row has
\* the id any more, and the result "deleted: true".
DeleteRemove(k) ==
    /\ calls[k].op = "delete"
    /\ calls[k].pc = "remove"
    /\ notes' = deleteNote(notes, calls[k].note_id)
    /\ connections' = CascadeDelete(connections, calls[k].note_id)
    /\ calls' = [calls EXCEPT ![k] = [op |-> "delete", pc |-> "done", ok |-> TRUE,
                                      note_id |-> calls[k].note_id, deleted |-> TRUE]]
    /\ UNCHANGED <<nextId, response>>

\* Lines 437-441: the delete request fails.
DeleteRemoveFails(k) ==
    /\ calls[k].op = "delete"
    /\ calls[k].pc = "remove"
    /\ calls' = [calls EXCEPT ![k] = [op |-> "delete", pc |-> "done", ok |-> FALSE,
                                      note_id |-> calls[k].note_id, error |-> "store_error"]]
    /\ UNCHANGED <<notes, connections, nextId, response>>

\* cortex_search_notes, lines 181-200: one request to the store.
SearchCall(k) ==
    /\ calls[k] = NoCall
    /\ \E query \in ConcurrentEmbeddings, limit \in ReadLimits :
       \E found \in searchByEmbedding(notes, query, limit, {}) :
          calls' = [calls EXCEPT ![k] = [op |-> "search", pc |-> "done", ok |-> TRUE,
                                         query |-> query, limit |-> limit, found |-> found]]
    /\ UNCHANGED <<notes, connections, nextId, response>>

\* cortex_visualize_interests, lines 277-314, with the default arguments but
\* for limit.
VisualizeCall(k) ==
    /\ calls[k] = NoCall
    /\ \E limit \in GraphLimits :
       LET graph == getInterestGraph(notes, connections, limit, DEFAULT_THRESHOLD, "")
       IN  calls' = [calls EXCEPT ![k] = [op |-> "visualize", pc |-> "done", ok |-> TRUE,
                                          limit |-> limit, nodes |-> graph.nodes,
                                          edges |-> graph.edges]]
    /\ UNCHANGED <<notes, connections, nextId, response>>

\* The transport hands the result of a finished call to its caller.
ReturnCall(k) ==
    /\ calls[k].pc = "done"
    /\ calls' = [calls EXCEPT ![k] = NoCall]
    /\ UNCHANGED <<notes, connections, nextId, response>>

\* A store of SeedNotes notes without connections.
InitConcurrent ==
    /\ \E e \in [1..SeedNotes -> ConcurrentEmbeddings] :
          notes = {[id |-> i, embedding |-> e[i], tags |-> {}] : i \in 1..SeedNotes}
    /\ connections = {}
    /\ nextId = SeedNotes + 1
    /\ response = Idle
    /\ calls = NoCalls

NextConcurrent ==
    \E k \in 1..MaxCalls :
        \/ SaveBegin(k)
        \/ SaveBeginFails(k)
        \/ SaveSearchThrows(k)
        \/ SaveAnalyse(k)
        \/ SaveWrite(k)
        \/ DeleteLookup(k)
        \/ DeleteRemove(k)
        \/ DeleteRemoveFails(k)
        \/ SearchCall(k)
        \/ VisualizeCall(k)
        \/ ReturnCall(k)

SpecConcurrent == InitConcurrent /\ [][NextConcurrent]_vars

\* =================================================================== claims

SaveDone == response.op = "save" /\ response.ok

\* C1: in every reachable state every connection row has a strength in
\* [0,1], whichever way the save that wrote it came to propose it.
C1_StrengthInUnitInterval ==
    \A c \in connections : c.strength >= 0 /\ c.strength <= 1000

\* The store holds a row written from a classifier answer and a row written
\* by the fallback for a thrown assessment, the latter just written.
C1_Witness ==
    /\ SaveDone
    /\ Len(response.connections) > 0
    /\ \E c \in connections : c.reasoning = REASON_FAILED /\ c.source_id = response.note
    /\ \E c \in connections : c.reasoning \in {"r1", "r2"}

\* C2 (as claimed): a failed classification with a candidate of similarity
\* >= 0.4 gives between one and three related_to edges and the warning about
\* the failed assessment; a single candidate gives exactly the edge to it,
\* with its similarity as strength.
C2_FailedAssessmentFallsBack ==
    (/\ SaveDone
     /\ response.searched
     /\ response.outcome \in {"no_key", "provider_error", "threw"}
     /\ \E i \in 1..Len(response.candidates) : response.candidates[i].similarity >= 400
     /\ response.failures = 0)
    => /\ Len(response.connections) >= 1
       /\ Len(response.connections) <= 3
       /\ \A i \in 1..Len(response.connections) :
             response.connections[i].label = "related_to"
       /\ response.warning.base = "assessment_failed"
       /\ Len(response.candidates) = 1
             => /\ Len(response.connections) = 1
                /\ response.connections[1].target_id = response.candidates[1].id
                /\ response.connections[1].strength = response.candidates[1].similarity

\* C3: an answered classification with no valid item, a candidate of
\* similarity >= 0.5 and no failed write gives one or two connections, each
\* related_to, each to a candidate of similarity >= 0.5 with that similarity
\* (cut to [0,1]) as strength, each in the store, and a null warning.
C3_EmptyAssessmentFallback ==
    (/\ SaveDone
     /\ response.searched
     /\ response.outcome = "answered"
     /\ Len(response.assessed) = 0
     /\ \E i \in 1..Len(response.candidates) : response.candidates[i].similarity >= 500
     /\ response.failures = 0)
    => /\ Len(response.connections) >= 1
       /\ Len(response.connections) <= 2
       /\ \A i \in 1..Len(response.connections) :
           LET made == response.connections[i]
           IN  /\ made.label = "related_to"
               /\ \E j \in 1..Len(response.candidates) :
                     LET cand == response.candidates[j]
                     IN  /\ cand.id = made.target_id
                         /\ cand.similarity >= 500
                         /\ made.strength = (IF cand.similarity > 1000 THEN 1000
                                              ELSE IF cand.similarity < 0 THEN 0
                                              ELSE cand.similarity)
               /\ \E c \in connections :
                     /\ c.source_id = response.note
                     /\ c.target_id = made.target_id
                     /\ c.label = made.label
                     /\ c.strength = made.strength
       /\ response.warning.base = "null"
       /\ response.warning.persistFailures = 0

\* Three candidates reach 0.5 and the cap of two has cut the third.
C3_Witness ==
    /\ SaveDone
    /\ response.searched
    /\ response.outcome = "answered"
    /\ Len(response.assessed) = 0
    /\ response.failures = 0
    /\ Len(response.candidates) = 3
    /\ \A i \in 1..3 : response.candidates[i].similarity >= 500
    /\ Len(response.connections) = 2

\* C4: a save whose search finds no note but the new one writes no
\* connection and returns success, an empty list and a null warning.
C4_NoCandidatesNoEdges ==
    (/\ SaveDone
     /\ response.searched
     /\ \A i \in 1..Len(response.similar) : response.similar[i].id = response.note)
    => /\ response.connections = <<>>
       /\ response.warning.base = "null"
       /\ response.warning.persistFailures = 0
       /\ \A c \in connections :
             c.source_id # response.note /\ c.target_id # response.note

\* The search found the new note alone although the store holds another.
C4_Witness ==
    /\ SaveDone
    /\ response.searched
    /\ Len(response.similar) = 1
    /\ response.similar[1].id = response.note
    /\ Cardinality(notes) >= 2
    /\ response.connections = <<>>

\* C5: a save step that inserts the note returns success with that note,
\* removes no note, and carries a warning when the search failed or a write
\* failed (the enrichment is incomplete).
C5_InsertedNoteSurvives ==
    [][(response.op = "none" /\ response'.op = "save" /\ notes' # notes)
        => /\ response'.ok
           /\ response'.note \in Ids(notes')
           /\ notes \subseteq notes'
           /\ (~response'.searched \/ response'.failures > 0)
                 => ~WarningIsNull(response'.warning)]_vars

\* The search failed after the insert; the note is in the store and the
\* result is a success with a warning.
C5_Witness ==
    /\ SaveDone
    /\ ~response.searched
    /\ response.note \in Ids(notes)
    /\ response.warning.base = "analysis_incomplete"

\* C6: the connection list is the proposals whose write succeeded, in
\* order; listed plus failed equals proposed; a failed write puts the count
\* of failures in the warning.
WriteOk(i) ==
    /\ i \notin response.writeFails
    /\ response.note \in Ids(notes)
    /\ response.assessments[i].note_id \in Ids(notes)

RECURSIVE Written(_)
Written(i) ==
    IF i = 0 THEN <<>>
    ELSE IF WriteOk(i)
         THEN Append(Written(i - 1),
                     [target_id |-> response.assessments[i].note_id,
                      label |-> response.assessments[i].label,
                      strength |-> response.assessments[i].strength,
                      reasoning |-> response.assessments[i].reasoning])
         ELSE Written(i - 1)

C6_FailedWriteDoesNotStopOthers ==
    SaveDone
    => /\ response.connections = Written(Len(response.assessments))
       /\ Len(response.connections) + response.failures = Len(response.assessments)
       /\ response.failures = Cardinality({i \in 1..Len(response.assessments) : ~WriteOk(i)})
       /\ response.failures > 0
             => /\ ~WarningIsNull(response.warning)
                /\ response.warning.persistFailures = response.failures

\* The first write failed and the second went through.
C6_Witness ==
    /\ SaveDone
    /\ Len(response.assessments) = 2
    /\ ~WriteOk(1)
    /\ WriteOk(2)
    /\ Len(response.connections) = 1
    /\ response.failures = 1


DeepDone == response.op = "get_related" /\ response.ok /\ response.depth >= 2

DirectDone == response.op = "get_related" /\ response.ok /\ response.depth = 1

\* Notes x and y are the two ends of a connection of strength >= s.
Joined(x, y, s) ==
    \E c \in connections :
        /\ c.strength >= s
        /\ \/ c.source_id = x /\ c.target_id = y
           \/ c.source_id = y /\ c.target_id = x

\* The notes within k hops of root over connections of strength >= s.
RECURSIVE Within(_, _, _)
Within(root, k, s) ==
    IF k = 0 THEN {root}
    ELSE LET near == Within(root, k - 1, s)
         IN  near \cup {y \in Ids(notes) : \E x \in near : Joined(x, y, s)}

\* The least number of hops from root to x, for x within reach.
Hops(root, x, s) ==
    CHOOSE k \in 0..Cardinality(notes) :
        /\ x \in Within(root, k, s)
        /\ \A j \in 0..(k - 1) : x \notin Within(root, j, s)

\* C7: for depth d >= 2 the traversal returns a note other than the root
\* exactly when it lies within d hops of the root over connections of
\* strength >= s in either direction; its depth is its least hop count, and
\* its label and strength are those of a connection of strength >= s that
\* joins it to a note one hop nearer to the root.
C7_DeepIsShortestPath ==
    DeepDone =>
      LET root == response.note_id
          s == response.min_strength
          rows == response.connections
      IN  /\ \A x \in Ids(notes) \ {root} :
                (\E r \in rows : r.id = x) <=> x \in Within(root, response.depth, s)
          /\ \A r \in rows :
                r.id # root =>
                  /\ r.depth = Hops(root, r.id, s)
                  /\ \E c \in connections :
                        /\ c.strength >= s
                        /\ c.label = r.connection_label
                        /\ c.strength = r.connection_strength
                        /\ \E y \in Ids(notes) :
                              /\ \/ c.source_id = r.id /\ c.target_id = y
                                 \/ c.source_id = y /\ c.target_id = r.id
                              /\ y \in Within(root, r.depth - 1, s)
                              /\ Hops(root, y, s) = r.depth - 1

\* A traversal of depth 2 returned a note two hops away and left out a note
\* three hops away.
C7_Witness ==
    /\ DeepDone
    /\ response.depth = 2
    /\ \E r \in response.connections : r.depth = 2
    /\ \E x \in Ids(notes) :
          /\ x \in Within(response.note_id, 3, response.min_strength)
          /\ x \notin Within(response.note_id, 2, response.min_strength)
          /\ \A r \in response.connections : r.id # x

\* C8: no note id occurs twice in the result of a deep traversal, and a note
\* joined to the root is reported at depth 1 even when a longer path leads
\* to it as well.
C8_DeepReportsEachNoteOnce ==
    DeepDone =>
      /\ \A r1, r2 \in response.connections : r1.id = r2.id => r1 = r2
      /\ \A r \in response.connections :
            (r.id # response.note_id
             /\ Joined(response.note_id, r.id, response.min_strength))
            => r.depth = 1

\* Q is joined to the root and to P, P is joined to the root: Q is found at
\* depth 1 and again at depth 2, and is returned once, at depth 1.
C8_Witness ==
    /\ DeepDone
    /\ \E q, p \in Ids(notes) \ {response.note_id} :
          /\ q # p
          /\ Joined(response.note_id, q, response.min_strength)
          /\ Joined(response.note_id, p, response.min_strength)
          /\ Joined(p, q, response.min_strength)
          /\ \E r \in response.connections : r.id = q /\ r.depth = 1
          /\ Cardinality({r \in response.connections : r.id = q}) = 1

\* C9 (as claimed): the result of a deep traversal never holds the root.
C9_DeepNeverReturnsRoot ==
    DeepDone => \A r \in response.connections : r.id # response.note_id

\* C10 (as claimed): the result of a direct traversal never holds the root.
C10_DirectNeverReturnsRoot ==
    DirectDone => \A r \in response.connections : r.id # response.note_id

\* The connections of strength >= s that join notes root and x, in either
\* direction.
Between(root, x, s) ==
    {c \in connections :
        /\ c.strength >= s
        /\ \/ c.source_id = root /\ c.target_id = x
           \/ c.source_id = x /\ c.target_id = root}

\* C11: a direct traversal from root with threshold s holds a row for note
\* x, at depth 1 with the connection's label and strength, exactly for the
\* connections that have the root at one end, x at the other and strength
\* >= s; strength equal to s counts, strength below s does not.
C11_DirectReportsQualifyingEdges ==
    DirectDone =>
      LET root == response.note_id
          s == response.min_strength
          rows == response.connections
      IN  /\ \A x \in Ids(notes) : \A c \in Between(root, x, s) :
                GraphRow(x, 1, c) \in rows
          /\ \A r \in rows :
                /\ r.depth = 1
                /\ \E c \in Between(root, r.id, s) :
                      /\ c.label = r.connection_label
                      /\ c.strength = r.connection_strength
                      /\ c.strength >= s

\* With threshold 0.6 the root's connection of strength 0.6 to X is reported
\* and Y, joined to the root by a connection of strength 0.2 only, is not.
C11_Witness ==
    /\ DirectDone
    /\ response.min_strength = 600
    /\ \E x, y \in Ids(notes) \ {response.note_id} :
          /\ x # y
          /\ \E c \in connections :
                /\ c.strength = 600
                /\ c.source_id = response.note_id
                /\ c.target_id = x
          /\ \E r \in response.connections : r.id = x /\ r.connection_strength = 600
          /\ \E c \in connections :
                /\ c.strength = 200
                /\ c.target_id = response.note_id
                /\ c.source_id = y
          /\ \A r \in response.connections : r.id # y

\* C12 (as claimed): a direct traversal holds, for every note other than the
\* root, as many rows as there are connections of strength >= s between that
\* note and the root.
C12_DirectOncePerEdge ==
    DirectDone =>
      \A x \in Ids(notes) \ {response.note_id} :
          Cardinality({r \in response.connections : r.id = x})
            = Cardinality(Between(response.note_id, x, response.min_strength))

\* The triple of entry i of the connection list of a save is written again
\* by a later entry.
WrittenAgain(i) ==
    \E j \in (i + 1)..Len(response.connections) :
        /\ response.connections[j].target_id = response.connections[i].target_id
        /\ response.connections[j].label = response.connections[i].label

\* C13: no two connection rows share source, target and label; after a save
\* the one row of a triple it wrote holds the strength and the reasoning of
\* the last write of that triple.
C13_OneRowPerTriple ==
    /\ \A c, d \in connections : SameTriple(c, d) => c = d
    /\ SaveDone =>
         \A i \in 1..Len(response.connections) :
            LET made == response.connections[i]
                held == {c \in connections :
                            /\ c.source_id = response.note
                            /\ c.target_id = made.target_id
                            /\ c.label = made.label}
            IN  /\ Cardinality(held) = 1
                /\ ~WrittenAgain(i) =>
                      \A c \in held : /\ c.strength = made.strength
                                      /\ c.reasoning = made.reasoning

\* A save wrote the same triple twice, with strength 0.6 and then with 0.2
\* and another reasoning; one row holds the second write.
C13_Witness ==
    /\ SaveDone
    /\ Len(response.connections) = 2
    /\ WrittenAgain(1)
    /\ response.connections[1].strength = 600
    /\ response.connections[2].strength = 200
    /\ response.connections[1].reasoning # response.connections[2].reasoning
    /\ \E c \in connections :
          /\ c.source_id = response.note
          /\ c.target_id = response.connections[2].target_id
          /\ c.strength = 200
          /\ c.reasoning = response.connections[2].reasoning

VisualizeDone == response.op = "visualize" /\ response.ok

\* The ids of the nodes of the returned interest graph.
NodeSet == {response.nodes[i] : i \in 1..Len(response.nodes)}

\* C15: the edges of an interest graph are exactly the connection rows
\* whose source and target both are returned nodes and whose strength is
\* >= the threshold; an empty node set comes with an empty edge set, as a
\* success.
C15_InterestGraphIsInduced ==
    VisualizeDone =>
      /\ NodeSet \subseteq Ids(notes)
      /\ response.edges =
            {c \in connections : /\ c.source_id \in NodeSet
                                 /\ c.target_id \in NodeSet
                                 /\ c.strength >= response.min_similarity}
      /\ \A c \in response.edges :
            c.source_id \in NodeSet /\ c.target_id \in NodeSet
      /\ NodeSet = {} => response.edges = {}

\* The graph of the two newest notes holds the connection between them and
\* leaves out an equally strong connection from the newest note to a third,
\* older note.
C15_Witness ==
    /\ VisualizeDone
    /\ Cardinality(NodeSet) = 2
    /\ \E c \in response.edges : c.source_id # c.target_id
    /\ \E c \in connections :
          /\ c.strength >= response.min_similarity
          /\ c.source_id \in NodeSet
          /\ c.target_id \in Ids(notes) \ NodeSet
          /\ c \notin response.edges

ToolNames ==
    {"save", "search", "get_related", "visualize", "summarize", "digest",
     "delete", "list_tags"}

\* C16: whatever a tool call ends with is a result of that tool, either a
\* success payload or an error result that names the failure; no call ends
\* with an exception leaving the handler.
C16_EveryToolReturns ==
    response # Idle =>
      /\ response.op \in ToolNames
      /\ "thrown" \notin DOMAIN response
      /\ "ok" \in DOMAIN response
      /\ response.ok \in BOOLEAN
      /\ ~response.ok => "error" \in DOMAIN response

\* A save whose similarity search failed after the insert still ended with
\* a payload.
C16_Witness ==
    /\ response # Idle
    /\ response.op = "save"
    /\ "ok" \in DOMAIN response
    /\ response.ok
    /\ ~response.searched
    /\ response.warning.base = "analysis_incomplete"

\* Entry i of the proposals of a save is the last one written for its
\* target and label.
LastWrite(i) ==
    /\ WriteOk(i)
    /\ \A j \in (i + 1)..Len(response.assessments) :
          WriteOk(j) =>
            \/ response.assessments[j].note_id # response.assessments[i].note_id
            \/ response.assessments[j].label # response.assessments[i].label

\* C17: when the classifier answers with at least one valid relationship,
\* the save proposes exactly the classifier's list: every write is one of
\* its entries, with the entry's target, label, strength and reasoning, and
\* no row of the new note comes from a similarity fallback.
C17_ClassifierOutputUsedAsIs ==
    (/\ SaveDone
     /\ response.searched
     /\ response.outcome = "answered"
     /\ Len(response.assessed) > 0)
    => /\ response.assessments = response.assessed
       /\ Len(response.connections) + response.failures = Len(response.assessed)
       /\ \A i \in 1..Len(response.assessed) :
             LastWrite(i) =>
                [source_id |-> response.note,
                 target_id |-> response.assessed[i].note_id,
                 label |-> response.assessed[i].label,
                 strength |-> response.assessed[i].strength,
                 reasoning |-> response.assessed[i].reasoning] \in connections
       /\ \A c \in connections :
             c.source_id = response.note =>
               /\ c.reasoning \notin {REASON_EMPTY, REASON_FAILED}
               /\ \E i \in 1..Len(response.assessed) :
                     /\ c.target_id = response.assessed[i].note_id
                     /\ c.label = response.assessed[i].label
                     /\ c.strength = response.assessed[i].strength
                     /\ c.reasoning = response.assessed[i].reasoning

\* The classifier named one of two candidates, the other candidate has a
\* similarity of 0.5 or more, and the save wrote the one named edge.
C17_Witness ==
    /\ SaveDone
    /\ response.outcome = "answered"
    /\ Len(response.assessed) = 1
    /\ Len(response.candidates) = 2
    /\ \A i \in 1..2 : response.candidates[i].similarity >= 500
    /\ Len(response.connections) = 1
    /\ Cardinality({c \in connections : c.source_id = response.note}) = 1

\* C18: every entry of the list the classifier hands back is an item of
\* the model's answer, has one of the five labels and a strength in [0,1];
\* an answer with items failing a check raises no error: the call ends as
\* answered, without a warning about the assessment.
C18_ClassifierKeepsValidItems ==
    (SaveDone /\ response.outcome = "answered")
    => /\ \A i \in 1..Len(response.assessed) :
             LET entry == response.assessed[i]
             IN  /\ entry.label \in {"supports", "contradicts", "follows_from",
                                     "expands_on", "related_to"}
                 /\ entry.strength >= 0
                 /\ entry.strength <= 1000
                 /\ \E j \in 1..Len(response.raw) :
                       /\ response.raw[j].note_id = entry.note_id
                       /\ response.raw[j].label = entry.label
                       /\ response.raw[j].strength = entry.strength
                       /\ response.raw[j].reasoning = entry.reasoning
       /\ response.warning.base = "null"

\* The answer held an item with an unknown label and an item with strength
\* 1.2; both were dropped and the save went on to the fallback.
C18_Witness ==
    /\ SaveDone
    /\ response.outcome = "answered"
    /\ Len(response.raw) = 2
    /\ response.raw[1].label = "bogus"
    /\ response.raw[2].strength = 1200
    /\ response.assessed = <<>>
    /\ response.ok
    /\ response.warning.base = "null"

RelatedCalled == response.op = "get_related"

\* C19: get_related succeeds only for a stored note; for an id that names no
\* note it returns an error, not found unless the store failed, and no
\* connection list; for a stored note without a connection of strength >=
\* min_strength it returns success with the empty list, at every depth.
C19_MissingRootAndIsolatedNote ==
    RelatedCalled =>
      /\ response.note_id \notin Ids(notes) =>
            /\ ~response.ok
            /\ response.error \in {"not_found", "store_error"}
            /\ "connections" \notin DOMAIN response
      /\ (~response.ok /\ response.error = "not_found") =>
            response.note_id \notin Ids(notes)
      /\ (/\ response.ok
          /\ \A x \in Ids(notes) :
                Between(response.note_id, x, response.min_strength) = {})
         => response.connections = {}

\* A traversal of depth 2 or more from a note whose only connection is
\* weaker than the threshold returned the empty list.
C19_Witness ==
    /\ RelatedCalled
    /\ response.ok
    /\ response.depth >= 2
    /\ response.connections = {}
    /\ \E c \in connections :
          /\ c.target_id = response.note_id
          /\ c.strength < response.min_strength

\* get_related answered not found for the id of a deleted note.
C19_NotFoundReached ==
    /\ RelatedCalled
    /\ ~response.ok
    /\ response.error = "not_found"
    /\ response.note_id > 0

\* C20: for notes x and root, distinct, and a threshold s, the direct
\* traversal from root reports x with a label and a strength exactly when
\* the direct traversal from x reports root with that label and strength.
C20_DirectIsSymmetric ==
    DirectDone =>
      LET root == response.note_id
          s == response.min_strength
      IN  \A x \in Ids(notes) \ {root} :
             LET back == get_connections(notes, connections, x, s)
             IN  /\ \A r \in response.connections :
                       r.id = x => [r EXCEPT !.id = root] \in back
                 /\ \A q \in back :
                       q.id = root => [q EXCEPT !.id = x] \in response.connections

\* The root is reported a note that it is joined to only by a connection
\* pointing at the root.
C20_Witness ==
    /\ DirectDone
    /\ \E r \in response.connections :
          /\ r.id # response.note_id
          /\ \A c \in connections : ~(c.source_id = response.note_id /\ c.target_id = r.id)
          /\ \E c \in connections : c.source_id = r.id /\ c.target_id = response.note_id

\* C21: a save step that reports a failure leaves the notes and the
\* connections as they were; a save step that adds a note row adds one row,
\* with the embedding the provider computed, and reports success; connection
\* rows are written only by a step that added the note.
C21_FailedSaveLeavesNoRow ==
    [][(response.op = "none" /\ response'.op = "save")
        => /\ ~response'.ok => (notes' = notes /\ connections' = connections)
           /\ notes' # notes =>
                 /\ response'.ok
                 /\ notes \subseteq notes'
                 /\ \A n \in notes' \ notes :
                       n.id = response'.note /\ n.embedding \in Embeddings
           /\ connections' # connections => notes' # notes]_vars

\* A save failed on a store of two notes; the store holds every note ever
\* inserted and no other.
C21_Witness ==
    /\ response.op = "save"
    /\ ~response.ok
    /\ Cardinality(notes) = 2
    /\ nextId = 3

\* C23: a step of search, get_related, visualize_interests, summarize_topic,
\* daily_digest or list_tags changes neither notes nor connections, and
\* every connection row that a step adds or changes is written by a save and
\* has the note of that save as its source.
C23_OnlySaveWritesEdges ==
    [][/\ (response.op = "none" /\ response'.op \in
              {"search", "get_related", "visualize", "summarize", "digest", "list_tags"})
          => (notes' = notes /\ connections' = connections)
       /\ \A c \in connections' \ connections :
             /\ response'.op = "save"
             /\ response'.ok
             /\ c.source_id = response'.note]_vars

\* A save wrote a connection from its note to an older note.
C23_Witness ==
    /\ SaveDone
    /\ Len(response.connections) >= 1
    /\ \E c \in connections :
          c.source_id = response.note /\ c.target_id # response.note

SearchDone == response.op = "search" /\ response.ok

\* C24: a search returns at most limit notes, by similarity from the
\* largest down, each with a similarity above 0.3 and each holding every
\* tag of the filter.
C24_SearchIsTopK ==
    SearchDone =>
      /\ Len(response.found) <= response.limit
      /\ \A i, j \in 1..Len(response.found) :
            i < j => response.found[i].similarity >= response.found[j].similarity
      /\ \A i \in 1..Len(response.found) :
            /\ response.found[i].similarity > 300
            /\ \E n \in notes :
                  /\ n.id = response.found[i].id
                  /\ response.tags \subseteq n.tags
                  /\ cosineSimilarity(n.embedding, response.query)
                        = response.found[i].similarity

\* A search for one note with a tag: two tagged notes are above 0.3, the
\* nearer one is returned; an untagged note above 0.3 is in the store.
C24_Witness ==
    /\ SearchDone
    /\ response.limit = 1
    /\ response.tags = {"ai"}
    /\ Len(response.found) = 1
    /\ \E n \in notes :
          /\ "ai" \in n.tags
          /\ n.id # response.found[1].id
          /\ cosineSimilarity(n.embedding, response.query) > 300
          /\ cosineSimilarity(n.embedding, response.query) < response.found[1].similarity
    /\ \E n \in notes :
          /\ n.tags = {}
          /\ cosineSimilarity(n.embedding, response.query) > 300

\* C25: a deep traversal ends with a result that holds at most one row per
\* stored note, every row at a depth between 1 and the depth asked for, on
\* every store, those with self-loops and with connections in both
\* directions between two notes included; the working table of the
\* recursion holds rows of those depths only.
C25_DeepTerminates ==
    DeepDone =>
      LET base == get_connections(notes, connections, response.note_id,
                                  response.min_strength)
          graph == RecursiveGraph(notes, connections, base, base, response.note_id,
                                  response.depth, response.min_strength)
      IN  /\ IsFiniteSet(response.connections)
          /\ Cardinality(response.connections) <= Cardinality(notes)
          /\ \A r \in response.connections :
                r.id \in Ids(notes) /\ r.depth >= 1 /\ r.depth <= response.depth
          /\ \A g \in graph : g.depth >= 1 /\ g.depth <= response.depth

\* A traversal of depth 3 from a root that has a self-loop and is joined to
\* another note in both directions.
C25_Witness ==
    /\ DeepDone
    /\ response.depth = 3
    /\ \E c \in connections :
          /\ c.source_id = response.note_id
          /\ c.target_id = response.note_id
          /\ c.strength >= response.min_strength
    /\ \E c, d \in connections :
          /\ c.source_id = response.note_id
          /\ c.target_id # response.note_id
          /\ d.source_id = c.target_id
          /\ d.target_id = response.note_id
          /\ c.strength >= response.min_strength
          /\ d.strength >= response.min_strength
    /\ response.connections # {}

\* C26 (as claimed): every entry of the connection list of a save has a
\* candidate of that save as its target, so never the new note itself.
C26_EdgesTargetCandidates ==
    SaveDone =>
      \A i \in 1..Len(response.connections) :
         /\ response.connections[i].target_id # response.note
         /\ \E j \in 1..Len(response.candidates) :
               response.candidates[j].id = response.connections[i].target_id

\* C27 (as claimed): no two entries of the connection list of a save share
\* target and label, and the list is as long as the number of connection
\* rows that have the new note as source.
C27_OneEntryPerRow ==
    SaveDone =>
      /\ \A i, j \in 1..Len(response.connections) :
            (/\ response.connections[i].target_id = response.connections[j].target_id
             /\ response.connections[i].label = response.connections[j].label)
            => i = j
      /\ Len(response.connections)
            = Cardinality({c \in connections : c.source_id = response.note})

\* C28: the notes a deep traversal reports at depth 1 are the notes the
\* direct traversal returns, and a note reported by the traversal of depth
\* d is reported at the same depth by every answer of the traversal of
\* depth d + 1.
C28_DeepExtendsDirect ==
    DeepDone =>
      LET root == response.note_id
          s == response.min_strength
      IN  /\ {r.id : r \in {x \in response.connections : x.depth = 1}}
                = {q.id : q \in get_connections(notes, connections, root, s)}
          /\ response.depth < MAX_DEPTH =>
                \A deeper \in get_connections_deep(notes, connections, root,
                                                   response.depth + 1, s) :
                   \A r \in response.connections :
                      \E q \in deeper : q.id = r.id /\ q.depth = r.depth

\* A traversal of depth 2 reported a note at depth 1 and a note at depth 2;
\* a further note, three hops from the root, is left to the traversal of
\* depth 3.
C28_Witness ==
    /\ DeepDone
    /\ response.depth = 2
    /\ \E r \in response.connections : r.depth = 1
    /\ \E r \in response.connections :
          /\ r.depth = 2
          /\ \E x \in Ids(notes) \ {response.note_id} :
                /\ \A q \in response.connections : q.id # x
                /\ Joined(r.id, x, response.min_strength)

\* The ids of a search result.
FoundIds(found) == {found[i].id : i \in 1..Len(found)}

\* The save in slot j has its note in the store and has written none of the
\* connections it is about to write.
BeforeFirstWrite(j) ==
    /\ SaveRunning(calls[j])
    /\ calls[j].pc = "write"
    /\ calls[j].i = 1
    /\ calls[j].note \in Ids(notes)
    /\ \A c \in connections : c.source_id # calls[j].note

\* C22: the insert of a save puts the note in the store in a step that
\* writes no connection, every later step of a save writes at most one
\* connection row, and a search or an interest graph taken while the save is
\* running reads the store as it is: unless cut by its limit, it returns the
\* note of every running save that is in the store (and, for the search,
\* above 0.3), whether or not the save has written a connection.
C22_NoteVisibleBeforeEdges ==
    [][\A k \in 1..MaxCalls :
          /\ (calls[k] = NoCall /\ SaveRunning(calls'[k]))
                => /\ calls'[k].note \in Ids(notes')
                   /\ connections' = connections
          /\ Cardinality(connections' \ connections) <= 1
          /\ (calls[k] = NoCall /\ calls'[k].op = "search"
                /\ Len(calls'[k].found) < calls'[k].limit)
                => \A j \in 1..MaxCalls :
                      (/\ SaveRunning(calls[j])
                       /\ \E n \in notes :
                             /\ n.id = calls[j].note
                             /\ cosineSimilarity(calls'[k].query, n.embedding) > 300)
                      => calls[j].note \in FoundIds(calls'[k].found)
          /\ (calls[k] = NoCall /\ calls'[k].op = "visualize"
                /\ calls'[k].limit >= Cardinality(notes))
                => \A j \in 1..MaxCalls :
                      (SaveRunning(calls[j]) /\ calls[j].note \in Ids(notes))
                      => \E i \in 1..Len(calls'[k].nodes) :
                            calls'[k].nodes[i] = calls[j].note]_vars

\* A search returned the note of a save that has connections to write and
\* has written none.
C22_Witness ==
    \E j, k \in 1..MaxCalls :
        /\ BeforeFirstWrite(j)
        /\ Len(calls[j].assessments) >= 1
        /\ calls[k].op = "search"
        /\ calls[j].note \in FoundIds(calls[k].found)

\* The save in slot k ran beside no other save, and its assessments name
\* candidates only.
SaveAlone(k) ==
    /\ calls[k].op = "save"
    /\ calls[k].pc \in {"write", "done"}
    /\ calls[k].ok
    /\ ~calls[k].overlapped
    /\ \A i \in 1..Len(calls[k].assessments) :
          \E j \in 1..Len(calls[k].candidates) :
             calls[k].candidates[j].id = calls[k].assessments[i].note_id

\* C29: every connection written by a save that overlapped no other save
\* and whose assessments name candidates only goes to a note inserted before
\* its own, and no connection comes back from that note.
C29_SequentialSavesPointBackwards ==
    \A k \in 1..MaxCalls :
        SaveAlone(k) =>
           \A c \in connections :
              c.source_id = calls[k].note =>
                 /\ c.target_id < c.source_id
                 /\ \A d \in connections :
                       ~(d.source_id = c.target_id /\ d.target_id = c.source_id)

\* Two saves overlapped, each naming candidates only, and two notes are
\* joined in both directions.
C29_MutualEdgesReached ==
    /\ \E c, d \in connections :
          /\ c.source_id # c.target_id
          /\ d.source_id = c.target_id
          /\ d.target_id = c.source_id
    /\ \A k \in 1..MaxCalls :
          /\ calls[k].op = "save"
          /\ calls[k].pc = "done"
          /\ calls[k].ok
          /\ calls[k].overlapped
          /\ Len(calls[k].created) >= 1
          /\ \A i \in 1..Len(calls[k].assessments) :
                \E j \in 1..Len(calls[k].candidates) :
                   calls[k].candidates[j].id = calls[k].assessments[i].note_id

\* A save that ran alone wrote a connection to an older note.
C29_Witness ==
    \E k \in 1..MaxCalls :
        /\ SaveAlone(k)
        /\ calls[k].pc = "done"
        /\ \E c \in connections : c.source_id = calls[k].note

\* C30 (as claimed): of two delete calls for the same note, at most one
\* reports "deleted: true".
C30_OneDeleteWins ==
    \A j, k \in 1..MaxCalls :
        (/\ j # k
         /\ calls[j].op = "delete" /\ calls[j].pc = "done"
         /\ calls[k].op = "delete" /\ calls[k].pc = "done"
         /\ calls[j].note_id = calls[k].note_id)
        => ~(calls[j].ok /\ calls[k].ok)

====
